---- MODULE Spec2Model ----
(***************************************************************************)
(* Model of ray.experimental.workflow.workflow_storage.WorkflowStorage:    *)
(* the checkpoint store of workflow steps, the step inspector and the      *)
(* dynamic-output shortcut.                                                *)
(*                                                                         *)
(* The key-value backend is a partial function from keys (path tuples) to  *)
(* payloads.  Python dicts are functions with string domains, None is the  *)
(* string "None", and payloads this layer never looks into (pickled        *)
(* values, dependency lists) are opaque tokens.                            *)
(***************************************************************************)
EXTENDS Naturals, Sequences, FiniteSets, TLC

VARIABLES
  store,     \* the backend: key (path tuple) -> stored payload
  result,    \* what the last finished call returned or raised
  pending,   \* _write_step_inputs in flight: step id -> puts not yet attempted
  genLog,    \* history: (workflow, name) -> values gen_step_id has returned
  chain,     \* history: the nested-workflow chain the engine has completed
  calls,     \* concurrent callers: caller -> where its read-then-write call is
  writes     \* history: the puts the concurrent callers have issued

vars == <<store, result, pending, genLog, chain, calls, writes>>

----------------------------------------------------------------------------
(* Key constants.                                                          *)

STEPS_DIR == "steps"
STEP_INPUTS_METADATA == "inputs.json"
STEP_OUTPUTS_METADATA == "outputs.json"
STEP_ARGS == "args.pkl"
STEP_OUTPUT == "output.pkl"
STEP_FUNC_BODY == "func_body.pkl"
DUPLICATE_NAME_COUNTER == "duplicate_name_counter"
WORKFLOW_META == "workflow_meta.json"

(* Python's None, and the truth value of a string or None.                 *)
None == "None"
Truthy(v) == v # None /\ v # ""

(* The universe of the model.                                              *)
Workflows == {"w1", "w2"}
RootStep == ""
NestedSteps == {"A", "B", "C"}
StepIDs == {RootStep} \cup NestedSteps
StepNames == {"f", "g"}

(* The members of the StepType enumeration.                                *)
StepType == {"FUNCTION", "ACTOR_METHOD", "READONLY_ACTOR_METHOD"}

----------------------------------------------------------------------------
(* Key helpers.                                                            *)

key_step_input_metadata(wf, step_id) == <<wf, STEPS_DIR, step_id, STEP_INPUTS_METADATA>>
key_step_output(wf, step_id) == <<wf, STEPS_DIR, step_id, STEP_OUTPUT>>
key_step_output_metadata(wf, step_id) == <<wf, STEPS_DIR, step_id, STEP_OUTPUTS_METADATA>>
key_step_function_body(wf, step_id) == <<wf, STEPS_DIR, step_id, STEP_FUNC_BODY>>
key_step_args(wf, step_id) == <<wf, STEPS_DIR, step_id, STEP_ARGS>>
key_step_prefix(wf, step_id) == <<wf, STEPS_DIR, step_id, "">>
key_num_steps_with_name(wf, name) == <<wf, DUPLICATE_NAME_COUNTER, name>>
key_workflow_metadata(wf) == <<wf, WORKFLOW_META>>

----------------------------------------------------------------------------
(* Payloads and the backend.                                               *)

Json(d) == [is_json |-> TRUE, data |-> d]
Pickle(d) == [is_json |-> FALSE, data |-> d]
\* a payload that is present but cannot be decoded
Corrupt == [is_json |-> TRUE, corrupt |-> TRUE]

\* dict.get(k), with None for a missing key
DictGet(d, k) == IF k \in DOMAIN d THEN d[k] ELSE None
\* dict[k] = v on a copy
DictSet(d, k, v) == (k :> v) @@ d

\* the backend's get: the payload, KeyNotFoundError for an absent key, another
\* exception for a payload it cannot decode
StorageGet(st, key) ==
  IF key \notin DOMAIN st THEN [exc |-> "KeyNotFoundError"]
  ELSE IF "corrupt" \in DOMAIN st[key] THEN [exc |-> "Exception"]
  ELSE [exc |-> "none", value |-> st[key].data]

\* the backend's put: with ok the payload lands, otherwise the backend raises
\* and nothing is stored
StoragePut(st, key, payload, ok) ==
  IF ok THEN [exc |-> "none", store |-> (key :> payload) @@ st]
  ELSE [exc |-> "Exception", store |-> st]

\* the backend's scan_prefix: the names of the immediate children of the prefix
StorageScanPrefix(st, prefix) ==
  LET n == Len(prefix) IN
  { k[n] : k \in { x \in DOMAIN st :
                     /\ Len(x) >= n
                     /\ \A i \in 1..(n - 1) : x[i] = prefix[i] } }

(* The wrappers of WorkflowStorage.                                        *)
Get(st, key) ==
  LET r == StorageGet(st, key) IN
  IF r.exc = "none" THEN [status |-> "ok", value |-> r.value]
  ELSE IF r.exc = "KeyNotFoundError" THEN [status |-> "KeyNotFoundError"]
  ELSE [status |-> "DataLoadError"]

Put(st, key, payload, ok) ==
  LET r == StoragePut(st, key, payload, ok) IN
  IF r.exc = "none" THEN [status |-> "ok", store |-> r.store]
  ELSE [status |-> "DataSaveError", store |-> r.store]

Scan(st, prefix) == [status |-> "ok", value |-> StorageScanPrefix(st, prefix)]

----------------------------------------------------------------------------
(* Output resolver.                                                        *)

\* a bug: the shortcut is ignored
locate_output_step_id_direct_only(st, wf, step_id) ==
  LET g == Get(st, key_step_output_metadata(wf, step_id)) IN
  IF g.status # "ok" THEN g
  ELSE [status |-> "ok", value |-> g.value["output_step_id"]]

locate_output_step_id(st, wf, step_id) ==
  LET g == Get(st, key_step_output_metadata(wf, step_id)) IN
  IF g.status # "ok" THEN g
  ELSE LET d == DictGet(g.value, "dynamic_output_step_id") IN
       [status |-> "ok",
        value |-> IF Truthy(d) THEN d ELSE g.value["output_step_id"]]

\* a bug: the candidate is not compared with the direct target
update_dynamic_output_over_direct(st, wf, outer_most_step_id, dynamic_output_step_id, ok) ==
  LET key == key_step_output_metadata(wf, outer_most_step_id)
      g == Get(st, key)
  IN
  IF g.status # "ok" THEN [status |-> g.status, store |-> st, writes |-> 0]
  ELSE IF dynamic_output_step_id # DictGet(g.value, "dynamic_output_step_id")
    THEN LET p == Put(st, key,
                      Json(DictSet(g.value, "dynamic_output_step_id",
                                   dynamic_output_step_id)), ok)
         IN [status |-> p.status, store |-> p.store, writes |-> 1]
  ELSE [status |-> "ok", store |-> st, writes |-> 0]

\* a bug: the candidate is not compared with the shortcut
update_dynamic_output_rewrites(st, wf, outer_most_step_id, dynamic_output_step_id, ok) ==
  LET key == key_step_output_metadata(wf, outer_most_step_id)
      g == Get(st, key)
  IN
  IF g.status # "ok" THEN [status |-> g.status, store |-> st, writes |-> 0]
  ELSE IF dynamic_output_step_id # g.value["output_step_id"]
    THEN LET p == Put(st, key,
                      Json(DictSet(g.value, "dynamic_output_step_id",
                                   dynamic_output_step_id)), ok)
         IN [status |-> p.status, store |-> p.store, writes |-> 1]
  ELSE [status |-> "ok", store |-> st, writes |-> 0]

\* a bug: a shortcut that is stored is never moved
update_dynamic_output_keeps_first(st, wf, outer_most_step_id, dynamic_output_step_id, ok) ==
  LET key == key_step_output_metadata(wf, outer_most_step_id)
      g == Get(st, key)
  IN
  IF g.status # "ok" THEN [status |-> g.status, store |-> st, writes |-> 0]
  ELSE IF /\ dynamic_output_step_id # g.value["output_step_id"]
          /\ "dynamic_output_step_id" \notin DOMAIN g.value
    THEN LET p == Put(st, key,
                      Json(DictSet(g.value, "dynamic_output_step_id",
                                   dynamic_output_step_id)), ok)
         IN [status |-> p.status, store |-> p.store, writes |-> 1]
  ELSE [status |-> "ok", store |-> st, writes |-> 0]

\* a bug: the candidate is stored as the direct target
update_dynamic_output_retargets(st, wf, outer_most_step_id, dynamic_output_step_id, ok) ==
  LET key == key_step_output_metadata(wf, outer_most_step_id)
      g == Get(st, key)
  IN
  IF g.status # "ok" THEN [status |-> g.status, store |-> st, writes |-> 0]
  ELSE IF /\ dynamic_output_step_id # g.value["output_step_id"]
          /\ dynamic_output_step_id # DictGet(g.value, "dynamic_output_step_id")
    THEN LET p == Put(st, key,
                      Json(DictSet(g.value, "output_step_id",
                                   dynamic_output_step_id)), ok)
         IN [status |-> p.status, store |-> p.store, writes |-> 1]
  ELSE [status |-> "ok", store |-> st, writes |-> 0]

\* _update_dynamic_output: the shortcut of the outer-most step is moved to the
\* candidate unless the candidate is its direct target or its shortcut already.
\* writes counts the puts issued.
update_dynamic_output(st, wf, outer_most_step_id, dynamic_output_step_id, ok) ==
  LET key == key_step_output_metadata(wf, outer_most_step_id)
      g == Get(st, key)
  IN
  IF g.status # "ok" THEN [status |-> g.status, store |-> st, writes |-> 0]
  ELSE IF /\ dynamic_output_step_id # g.value["output_step_id"]
          /\ dynamic_output_step_id # DictGet(g.value, "dynamic_output_step_id")
    THEN LET p == Put(st, key,
                      Json(DictSet(g.value, "dynamic_output_step_id",
                                   dynamic_output_step_id)), ok)
         IN [status |-> p.status, store |-> p.store, writes |-> 1]
  ELSE [status |-> "ok", store |-> st, writes |-> 0]

----------------------------------------------------------------------------
(* Step artifact manager: outputs.                                         *)

\* what a step returns: a nested workflow, named by its step id, or an object
Workflow(step_id) == [is_workflow |-> TRUE, step_id |-> step_id]
Object == [is_workflow |-> FALSE, step_id |-> None]
Returns == {Workflow(t) : t \in NestedSteps} \cup {Object}

\* the outer-most step ids save_step_output is called with
OuterMostStepIDs == StepIDs \cup {None}

\* a bug: the step's own id is forwarded even when it returns a nested workflow
save_step_output_forwards_self(st, wf, step_id, ret, outer_most_step_id, ok1, ok2) ==
  LET own == IF ret.is_workflow
               THEN Put(st, key_step_output_metadata(wf, step_id),
                        Json([output_step_id |-> ret.step_id]), ok1)
               ELSE Put(st, key_step_output(wf, step_id), Pickle("value"), ok1)
      upd == IF outer_most_step_id # None /\ outer_most_step_id # ""
               THEN update_dynamic_output(own.store, wf, outer_most_step_id,
                                          step_id, ok2)
               ELSE [status |-> "ok", store |-> own.store, writes |-> 0]
  IN [status |-> IF own.status # "ok" THEN own.status ELSE upd.status,
      store |-> upd.store]

\* a bug: the root-driver sentinel is not kept from the shortcut update
save_step_output_updates_root(st, wf, step_id, ret, outer_most_step_id, ok1, ok2) ==
  LET own == IF ret.is_workflow
               THEN Put(st, key_step_output_metadata(wf, step_id),
                        Json([output_step_id |-> ret.step_id]), ok1)
               ELSE Put(st, key_step_output(wf, step_id), Pickle("value"), ok1)
      dynamic_output_id == IF ret.is_workflow THEN ret.step_id ELSE step_id
      upd == IF outer_most_step_id # None
               THEN update_dynamic_output(own.store, wf, outer_most_step_id,
                                          dynamic_output_id, ok2)
               ELSE [status |-> "ok", store |-> own.store, writes |-> 0]
  IN [status |-> IF own.status # "ok" THEN own.status ELSE upd.status,
      store |-> upd.store]

\* a bug: a step that returns a nested workflow gets an output checkpoint too
save_step_output_both(st, wf, step_id, ret, outer_most_step_id, ok1, ok2) ==
  LET meta == Put(st, key_step_output_metadata(wf, step_id),
                  Json([output_step_id |-> ret.step_id]), ok1)
      own == IF ret.is_workflow
               THEN Put(meta.store, key_step_output(wf, step_id), Pickle("value"), ok1)
               ELSE Put(st, key_step_output(wf, step_id), Pickle("value"), ok1)
      dynamic_output_id == IF ret.is_workflow THEN ret.step_id ELSE step_id
      upd == IF outer_most_step_id # None /\ outer_most_step_id # ""
               THEN update_dynamic_output(own.store, wf, outer_most_step_id,
                                          dynamic_output_id, ok2)
               ELSE [status |-> "ok", store |-> own.store, writes |-> 0]
  IN [status |-> IF own.status # "ok" THEN own.status ELSE upd.status,
      store |-> upd.store]

\* save_step_output.  Its own put and the shortcut update are gathered; they
\* touch different keys (a step is never its own outer-most step), so their
\* interleavings all end in the store computed here.  ok1 and ok2 say whether
\* the backend accepts the own put and the put of the update.
save_step_output(st, wf, step_id, ret, outer_most_step_id, ok1, ok2) ==
  LET own == IF ret.is_workflow
               THEN Put(st, key_step_output_metadata(wf, step_id),
                        Json([output_step_id |-> ret.step_id]), ok1)
               ELSE Put(st, key_step_output(wf, step_id), Pickle("value"), ok1)
      dynamic_output_id == IF ret.is_workflow THEN ret.step_id ELSE step_id
      upd == IF outer_most_step_id # None /\ outer_most_step_id # ""
               THEN update_dynamic_output(own.store, wf, outer_most_step_id,
                                          dynamic_output_id, ok2)
               ELSE [status |-> "ok", store |-> own.store, writes |-> 0]
  IN [status |-> IF own.status # "ok" THEN own.status ELSE upd.status,
      store |-> upd.store]

----------------------------------------------------------------------------
(* Step inspector.                                                         *)

\* StepInspectResult with the defaults of its dataclass
StepInspectResult ==
  [output_object_valid |-> FALSE, output_step_id |-> None,
   args_valid |-> FALSE, func_body_valid |-> FALSE,
   object_refs |-> None, workflows |-> None, workflow_refs |-> None,
   max_retries |-> "1", catch_exceptions |-> "False",
   ray_options |-> None, step_type |-> None]

\* a bug: the function body is not asked for
is_recoverable_without_func_body(v) ==
  \/ v.output_object_valid
  \/ Truthy(v.output_step_id)
  \/ (/\ v.args_valid
      /\ v.object_refs # None
      /\ v.workflows # None)

is_recoverable(v) ==
  \/ v.output_object_valid
  \/ Truthy(v.output_step_id)
  \/ (/\ v.args_valid
      /\ v.object_refs # None
      /\ v.workflows # None
      /\ v.func_body_valid)

\* the StepStatus of a step: which artifacts the scan of its prefix lists
StepStatus(st, wf, step_id) ==
  LET keys == Scan(st, key_step_prefix(wf, step_id)).value IN
  [output_object_exists |-> STEP_OUTPUT \in keys,
   output_metadata_exists |-> STEP_OUTPUTS_METADATA \in keys,
   input_metadata_exists |-> STEP_INPUTS_METADATA \in keys,
   args_exists |-> STEP_ARGS \in keys,
   func_body_exists |-> STEP_FUNC_BODY \in keys]

\* the verdict of a step whose output checkpoint exists
InspectOutput == [status |-> "ok",
                  value |-> [StepInspectResult EXCEPT !.output_object_valid = TRUE]]

\* the verdict of a step whose output metadata exists
InspectOutputMetadata(st, wf, step_id) ==
  LET l == locate_output_step_id(st, wf, step_id) IN
  IF l.status # "ok" THEN l
  ELSE [status |-> "ok",
        value |-> [StepInspectResult EXCEPT !.output_step_id = l.value]]

\* a bug: the step type of the loaded input metadata is not looked up
InputMetadataRaises_ignores_step_type(metadata) ==
  \/ "object_refs" \notin DOMAIN metadata
  \/ "workflows" \notin DOMAIN metadata
  \/ "workflow_refs" \notin DOMAIN metadata
  \/ "step_type" \notin DOMAIN metadata

\* whether building the full verdict from the loaded input metadata raises:
\* a missing dependency key, or a step type StepType does not have
InputMetadataRaises(metadata) ==
  \/ "object_refs" \notin DOMAIN metadata
  \/ "workflows" \notin DOMAIN metadata
  \/ "workflow_refs" \notin DOMAIN metadata
  \/ DictGet(metadata, "step_type") \notin StepType

\* a bug: the arguments are taken to exist when the input metadata does
InspectInputs_args_from_metadata(st, wf, step_id, field_list) ==
  LET g == Get(st, key_step_input_metadata(wf, step_id))
      reduced == [StepInspectResult EXCEPT
                    !.args_valid = field_list.input_metadata_exists,
                    !.func_body_valid = field_list.func_body_exists]
  IN
  IF g.status # "ok" \/ InputMetadataRaises(g.value)
    THEN [status |-> "ok", value |-> reduced]
  ELSE [status |-> "ok",
        value |-> [reduced EXCEPT
                     !.object_refs = g.value["object_refs"],
                     !.workflows = g.value["workflows"],
                     !.workflow_refs = g.value["workflow_refs"],
                     !.step_type = g.value["step_type"]]]

\* a bug: a failed load of the input metadata is raised to the caller
InspectInputs_propagates(st, wf, step_id, field_list) ==
  LET g == Get(st, key_step_input_metadata(wf, step_id))
      reduced == [StepInspectResult EXCEPT
                    !.args_valid = field_list.args_exists,
                    !.func_body_valid = field_list.func_body_exists]
  IN
  IF g.status # "ok" THEN [status |-> g.status, value |-> reduced]
  ELSE IF InputMetadataRaises(g.value) THEN [status |-> "ok", value |-> reduced]
  ELSE [status |-> "ok",
        value |-> [reduced EXCEPT
                     !.object_refs = g.value["object_refs"],
                     !.workflows = g.value["workflows"],
                     !.workflow_refs = g.value["workflow_refs"],
                     !.max_retries = DictGet(g.value, "max_retries"),
                     !.catch_exceptions = DictGet(g.value, "catch_exceptions"),
                     !.ray_options = IF "ray_options" \in DOMAIN g.value
                                       THEN g.value["ray_options"] ELSE "{}",
                     !.step_type = g.value["step_type"]]]

\* the verdict read from the inputs: any exception gives the reduced verdict
InspectInputs(st, wf, step_id, field_list) ==
  LET g == Get(st, key_step_input_metadata(wf, step_id))
      reduced == [StepInspectResult EXCEPT
                    !.args_valid = field_list.args_exists,
                    !.func_body_valid = field_list.func_body_exists]
  IN
  IF g.status # "ok" \/ InputMetadataRaises(g.value)
    THEN [status |-> "ok", value |-> reduced]
  ELSE [status |-> "ok",
        value |-> [reduced EXCEPT
                     !.object_refs = g.value["object_refs"],
                     !.workflows = g.value["workflows"],
                     !.workflow_refs = g.value["workflow_refs"],
                     !.max_retries = DictGet(g.value, "max_retries"),
                     !.catch_exceptions = DictGet(g.value, "catch_exceptions"),
                     !.ray_options = IF "ray_options" \in DOMAIN g.value
                                       THEN g.value["ray_options"] ELSE "{}",
                     !.step_type = g.value["step_type"]]]

\* a bug: the output metadata is looked at before the output checkpoint
inspect_step_metadata_first(st, wf, step_id) ==
  LET field_list == StepStatus(st, wf, step_id) IN
  IF field_list.output_metadata_exists
    THEN InspectOutputMetadata(st, wf, step_id)
  ELSE IF field_list.output_object_exists THEN InspectOutput
  ELSE InspectInputs(st, wf, step_id, field_list)

inspect_step(st, wf, step_id) ==
  LET field_list == StepStatus(st, wf, step_id) IN
  IF field_list.output_object_exists THEN InspectOutput
  ELSE IF field_list.output_metadata_exists
    THEN InspectOutputMetadata(st, wf, step_id)
  ELSE InspectInputs(st, wf, step_id, field_list)

----------------------------------------------------------------------------
(* Results of calls.                                                       *)

NoResult == [op |-> "none", status |-> "none"]
\* no value returned yet, no chain completed yet
NoLog == [k \in Workflows \X StepNames |-> <<>>]
NoChain == [steps |-> <<>>, outer |-> None, done |-> FALSE]
\* the callers whose calls interleave, none of them in a call
Callers == {"p1", "p2"}
NoCalls == [p \in Callers |-> [pc |-> "idle"]]

InspectStep(wf, step_id) ==
  /\ LET r == inspect_step(store, wf, step_id) IN
       result' = [op |-> "inspect_step", wf |-> wf, step_id |-> step_id,
                  status |-> r.status,
                  value |-> IF r.status = "ok" THEN r.value ELSE StepInspectResult]
  /\ UNCHANGED <<store, pending, genLog, chain, calls, writes>>

\* the puts of a call the backend may refuse: none, its own, the update's
Faults == {"none", "own", "update"}

\* save_step_output(step_id, ret, outer_most_step_id) on the storage of wf.
\* The assertion of the code is the first guard; no step is its own outer-most
\* step, a workflow returned below the outer-most step is another step, and
\* the driver (the empty step id) has no outer-most step.
SaveStepOutput(wf, step_id, ret, outer_most_step_id, fault) ==
  /\ ret.is_workflow => step_id # ret.step_id
  /\ outer_most_step_id # step_id
  /\ ret.is_workflow => outer_most_step_id # ret.step_id
  /\ step_id = RootStep => outer_most_step_id = None
  /\ LET r == save_step_output(store, wf, step_id, ret, outer_most_step_id,
                               fault # "own", fault # "update")
     IN /\ fault = "update" => r.status = "DataSaveError"
        /\ store' = r.store
        /\ result' = [op |-> "save_step_output", status |-> r.status,
                      fault |-> fault]
  /\ UNCHANGED <<pending, genLog, chain, calls, writes>>

\* a bug: the failure of the lookup is raised as it is
GetEntrypointStepId_unwrapped(wf) ==
  /\ LET l == locate_output_step_id(store, wf, RootStep) IN
       result' = IF l.status = "ok"
                   THEN [op |-> "get_entrypoint_step_id", status |-> "ok",
                         value |-> l.value]
                   ELSE [op |-> "get_entrypoint_step_id", status |-> l.status,
                         value |-> None]
  /\ UNCHANGED <<store, pending, genLog, chain, calls, writes>>

\* get_entrypoint_step_id(): any failure is raised as a ValueError whose
\* message names the workflow
GetEntrypointStepId(wf) ==
  /\ LET l == locate_output_step_id(store, wf, RootStep) IN
       result' = IF l.status = "ok"
                   THEN [op |-> "get_entrypoint_step_id", status |-> "ok",
                         value |-> l.value]
                   ELSE [op |-> "get_entrypoint_step_id", status |-> "ValueError",
                         value |-> wf]
  /\ UNCHANGED <<store, pending, genLog, chain, calls, writes>>

----------------------------------------------------------------------------
(* Step artifact manager: inputs and step names.                           *)

\* WorkflowData.to_metadata(): the input metadata document of a step
to_metadata(inputs) ==
  [object_refs |-> inputs.object_refs, workflows |-> inputs.workflows,
   workflow_refs |-> inputs.workflow_refs, step_type |-> inputs.step_type,
   max_retries |-> inputs.max_retries,
   catch_exceptions |-> inputs.catch_exceptions,
   ray_options |-> inputs.ray_options]

\* the WorkflowData a step is saved with
WorkflowData ==
  {[object_refs |-> "[]", workflows |-> "[B]", workflow_refs |-> "[]",
    step_type |-> t, max_retries |-> "3", catch_exceptions |-> "True",
    ray_options |-> "{}"] : t \in StepType}

\* the three puts _write_step_inputs gathers
InputArtifacts == {STEP_INPUTS_METADATA, STEP_FUNC_BODY, STEP_ARGS}

\* the key and the payload of one of the three puts
InputPut(wf, step_id, metadata, name) ==
  IF name = STEP_INPUTS_METADATA
    THEN [key |-> key_step_input_metadata(wf, step_id), payload |-> Json(metadata)]
  ELSE IF name = STEP_FUNC_BODY
    THEN [key |-> key_step_function_body(wf, step_id), payload |-> Pickle("func_body")]
  ELSE [key |-> key_step_args(wf, step_id), payload |-> Pickle("args")]

NoWrite == [todo |-> {}, metadata |-> to_metadata(CHOOSE d \in WorkflowData : TRUE),
            exc |-> "none"]
NoWrites == [s \in StepIDs |-> NoWrite]

\* a bug: the counter is returned before it is incremented
gen_step_id_stale(st, wf, step_name, ok) ==
  LET key == key_num_steps_with_name(wf, step_name)
      g == Get(st, key)
  IN
  IF g.status = "ok"
    THEN LET p == Put(st, key, Json(g.value + 1), ok) IN
         [status |-> p.status, store |-> p.store, value |-> g.value]
  ELSE IF g.status = "KeyNotFoundError"
    THEN LET p == Put(st, key, Json(0), ok) IN
         [status |-> p.status, store |-> p.store, value |-> 0]
  ELSE [status |-> g.status, store |-> st, value |-> 0]

\* a bug: the counter is written back as it was read
gen_step_id_no_increment(st, wf, step_name, ok) ==
  LET key == key_num_steps_with_name(wf, step_name)
      g == Get(st, key)
  IN
  IF g.status = "ok"
    THEN LET p == Put(st, key, Json(g.value), ok) IN
         [status |-> p.status, store |-> p.store, value |-> g.value + 1]
  ELSE IF g.status = "KeyNotFoundError"
    THEN LET p == Put(st, key, Json(0), ok) IN
         [status |-> p.status, store |-> p.store, value |-> 0]
  ELSE [status |-> g.status, store |-> st, value |-> 0]

\* gen_step_id: the counter of the name is read and written back incremented,
\* or written as 0 when it is absent
gen_step_id(st, wf, step_name, ok) ==
  LET key == key_num_steps_with_name(wf, step_name)
      g == Get(st, key)
  IN
  IF g.status = "ok"
    THEN LET p == Put(st, key, Json(g.value + 1), ok) IN
         [status |-> p.status, store |-> p.store, value |-> g.value + 1]
  ELSE IF g.status = "KeyNotFoundError"
    THEN LET p == Put(st, key, Json(0), ok) IN
         [status |-> p.status, store |-> p.store, value |-> 0]
  ELSE [status |-> g.status, store |-> st, value |-> 0]

----------------------------------------------------------------------------
(* Completions of the steps of one workflow, in any order and any number   *)
(* of times (the artifacts of different workflows share no key).  The      *)
(* driver's own completion is followed in SpecChain.                       *)

StepWorkflow == "w1"

Init ==
  /\ store = <<>>
  /\ result = NoResult
  /\ pending = NoWrites
  /\ genLog = NoLog
  /\ chain = NoChain
  /\ calls = NoCalls
  /\ writes = <<>>

Next ==
  \E step_id \in NestedSteps, ret \in Returns, outer \in OuterMostStepIDs,
     fault \in Faults :
    SaveStepOutput(StepWorkflow, step_id, ret, outer, fault)

Spec == Init /\ [][Next]_vars

----------------------------------------------------------------------------
(* A chain of nested workflows, as the engine completes it: the driver     *)
(* commits the entry workflow, and each step of the chain returns the next *)
(* one, until one returns an object.                                       *)

Last(seq) == seq[Len(seq)]
Range(seq) == {seq[i] : i \in 1..Len(seq)}

\* the outer-most step ids the completion of the last step of the chain may be
\* saved with: none (absent or the root sentinel) or, for a step nested below
\* the entry step, the entry step
EngineOuterMost(steps) ==
  IF Len(steps) <= 2 THEN {None, RootStep} ELSE {None, RootStep, steps[2]}

\* the next step of the chain returns the nested workflow t; chain.outer keeps
\* the outer-most step id of the latest such completion
ChainReturnsWorkflow(wf, t, outer) ==
  /\ ~chain.done
  /\ t \notin Range(chain.steps)
  /\ LET steps == IF chain.steps = <<>> THEN <<RootStep>> ELSE chain.steps
         r == save_step_output(store, wf, Last(steps), Workflow(t), outer, TRUE, TRUE)
     IN /\ outer \in EngineOuterMost(steps)
        /\ store' = r.store
        /\ result' = [op |-> "save_step_output", status |-> r.status,
                      fault |-> "none"]
        /\ chain' = [chain EXCEPT !.steps = Append(steps, t), !.outer = outer]
  /\ UNCHANGED <<pending, genLog, calls, writes>>

\* the last step of the chain returns an object
ChainReturnsObject(wf, outer) ==
  /\ ~chain.done
  /\ Len(chain.steps) >= 2
  /\ outer \in EngineOuterMost(chain.steps)
  /\ LET r == save_step_output(store, wf, Last(chain.steps), Object, outer, TRUE, TRUE)
     IN /\ store' = r.store
        /\ result' = [op |-> "save_step_output", status |-> r.status,
                      fault |-> "none"]
  /\ chain' = [chain EXCEPT !.done = TRUE]
  /\ UNCHANGED <<pending, genLog, calls, writes>>

NextChain ==
  \/ \E t \in NestedSteps, outer \in OuterMostStepIDs :
       ChainReturnsWorkflow(StepWorkflow, t, outer)
  \/ \E outer \in OuterMostStepIDs : ChainReturnsObject(StepWorkflow, outer)
  \/ GetEntrypointStepId(StepWorkflow)
  \/ \E s \in StepIDs : InspectStep(StepWorkflow, s)

SpecChain == Init /\ [][NextChain]_vars

----------------------------------------------------------------------------
(* The inputs of a step: the three puts of _write_step_inputs land one by  *)
(* one, each may be refused, and nothing is rolled back.                   *)

\* the step whose inputs and outputs are followed
InputStep == "A"

\* save_subworkflow of a workflow whose DAG holds the step: the puts start
WriteStepInputs(wf, step_id, inputs) ==
  /\ pending[step_id].todo = {}
  /\ pending' = [pending EXCEPT ![step_id] =
                   [todo |-> InputArtifacts, metadata |-> to_metadata(inputs),
                    exc |-> "none"]]
  /\ UNCHANGED <<store, result, genLog, chain, calls, writes>>

\* one of the gathered puts runs; the first refusal is what the call raises
PutStepInput(wf, step_id, name, ok) ==
  /\ name \in pending[step_id].todo
  /\ LET put == InputPut(wf, step_id, pending[step_id].metadata, name)
         p == Put(store, put.key, put.payload, ok)
         exc == IF pending[step_id].exc = "none" /\ p.status # "ok"
                  THEN p.status ELSE pending[step_id].exc
     IN /\ store' = p.store
        /\ pending' = [pending EXCEPT ![step_id].todo = @ \ {name},
                                      ![step_id].exc = exc]
        /\ result' = IF pending[step_id].todo = {name} \/ exc # pending[step_id].exc
                       THEN [op |-> "save_subworkflow",
                             status |-> IF exc = "none" THEN "ok" ELSE exc]
                       ELSE result
  /\ UNCHANGED <<genLog, chain, calls, writes>>

NextInputs ==
  \/ \E inputs \in WorkflowData : WriteStepInputs(StepWorkflow, InputStep, inputs)
  \/ \E name \in InputArtifacts, ok \in BOOLEAN :
       PutStepInput(StepWorkflow, InputStep, name, ok)
  \/ \E ret \in Returns, fault \in Faults :
       SaveStepOutput(StepWorkflow, InputStep, ret, None, fault)
  \/ InspectStep(StepWorkflow, InputStep)

SpecInputs == Init /\ [][NextInputs]_vars

----------------------------------------------------------------------------
(* inspect_step running beside the writers of the step: its scan of the    *)
(* step's prefix and the read that follows are separate backend calls, and *)
(* puts of save_subworkflow and save_step_output may land in between.      *)

\* a bug: input metadata listed by the scan is taken to show that the
\* arguments and the function body are stored
inspect_step_reads_trusts_metadata(st, wf, step_id, field_list) ==
  IF field_list.output_object_exists THEN InspectOutput
  ELSE IF field_list.output_metadata_exists
    THEN InspectOutputMetadata(st, wf, step_id)
  ELSE InspectInputs(st, wf, step_id,
                     [field_list EXCEPT
                        !.args_exists = @ \/ field_list.input_metadata_exists,
                        !.func_body_exists = @ \/ field_list.input_metadata_exists])

\* _inspect_step after its scan: the verdict from the field list the scan
\* gave and from what the store holds when the read is made
inspect_step_reads(st, wf, step_id, field_list) ==
  IF field_list.output_object_exists THEN InspectOutput
  ELSE IF field_list.output_metadata_exists
    THEN InspectOutputMetadata(st, wf, step_id)
  ELSE InspectInputs(st, wf, step_id, field_list)

\* the caller starts inspect_step(step_id): the scan of the step's prefix
InspectScan(p, wf, step_id) ==
  /\ calls[p].pc = "idle"
  /\ calls' = [calls EXCEPT ![p] = [pc |-> "scanned",
                                    field_list |-> StepStatus(store, wf, step_id)]]
  /\ UNCHANGED <<store, result, pending, genLog, chain, writes>>

\* the read the field list calls for, and the return of the verdict
InspectReturn(p, wf, step_id) ==
  /\ calls[p].pc = "scanned"
  /\ LET r == inspect_step_reads(store, wf, step_id, calls[p].field_list) IN
       result' = [op |-> "inspect_step", wf |-> wf, step_id |-> step_id,
                  status |-> r.status,
                  value |-> IF r.status = "ok" THEN r.value ELSE StepInspectResult,
                  field_list |-> calls[p].field_list]
  /\ calls' = [calls EXCEPT ![p] = [pc |-> "idle"]]
  /\ UNCHANGED <<store, pending, genLog, chain, writes>>

\* the caller that inspects, and the inputs and the returns of the step
Inspector == "p1"
RaceInputs == {d \in WorkflowData : d.step_type = "FUNCTION"}
RaceReturns == {Workflow("B"), Object}

NextInspectRace ==
  \/ \E inputs \in RaceInputs : WriteStepInputs(StepWorkflow, InputStep, inputs)
  \/ \E name \in InputArtifacts, ok \in BOOLEAN :
       PutStepInput(StepWorkflow, InputStep, name, ok)
  \/ \E ret \in RaceReturns, fault \in {"none", "own"} :
       SaveStepOutput(StepWorkflow, InputStep, ret, None, fault)
  \/ InspectScan(Inspector, StepWorkflow, InputStep)
  \/ InspectReturn(Inspector, StepWorkflow, InputStep)

SpecInspectRace == Init /\ [][NextInspectRace]_vars

----------------------------------------------------------------------------
(* Step names: sequential calls of gen_step_id, on two workflows and two   *)
(* names.                                                                  *)

\* the number of values gen_step_id returns for one name
MaxGen == 3

GenStepId(wf, step_name, ok) ==
  /\ Len(genLog[<<wf, step_name>>]) < MaxGen
  /\ LET r == gen_step_id(store, wf, step_name, ok) IN
       /\ store' = r.store
       /\ result' = [op |-> "gen_step_id", status |-> r.status, value |-> r.value]
       /\ genLog' = IF r.status = "ok"
                      THEN [genLog EXCEPT ![<<wf, step_name>>] = Append(@, r.value)]
                      ELSE genLog
  /\ UNCHANGED <<pending, chain, calls, writes>>

NextGen ==
  \E wf \in Workflows, step_name \in StepNames, ok \in BOOLEAN :
    GenStepId(wf, step_name, ok)

SpecGen == Init /\ [][NextGen]_vars

----------------------------------------------------------------------------
(* gen_step_id called by concurrent callers on one workflow: the read of   *)
(* the counter and the put that follows it are separate backend calls, and *)
(* the calls of other callers may come in between.                         *)

MaxCalls == 4

\* what the counter of the name holds, as the value the next call that reads
\* it writes and returns: 0 when it is absent
CounterNext(st, step_name) ==
  IF key_num_steps_with_name(StepWorkflow, step_name) \in DOMAIN st
    THEN st[key_num_steps_with_name(StepWorkflow, step_name)].data + 1
  ELSE 0

\* the caller starts gen_step_id(step_name): its _get of the counter
GenRead(p, step_name) ==
  /\ calls[p].pc = "idle"
  /\ Len(writes) + Cardinality({q \in Callers : calls[q].pc # "idle"}) < MaxCalls
  /\ calls' = [calls EXCEPT ![p] = [pc |-> "read", step_name |-> step_name,
                                    snap |-> store]]
  /\ UNCHANGED <<store, result, pending, genLog, chain, writes>>

\* the caller's _put of the value computed from what it read, and its return
GenWrite(p, ok) ==
  /\ calls[p].pc = "read"
  /\ LET step_name == calls[p].step_name
         key == key_num_steps_with_name(StepWorkflow, step_name)
         r == gen_step_id(calls[p].snap, StepWorkflow, step_name, ok)
     IN /\ store' = IF r.status = "ok" THEN (key :> r.store[key]) @@ store
                    ELSE store
        /\ result' = [op |-> "gen_step_id", status |-> r.status, value |-> r.value]
        /\ genLog' = IF r.status = "ok"
                       THEN [genLog EXCEPT ![<<StepWorkflow, step_name>>] =
                               Append(@, r.value)]
                       ELSE genLog
        /\ writes' = Append(writes,
                            [caller |-> p, step_name |-> step_name,
                             ok |-> r.status = "ok",
                             read |-> CounterNext(calls[p].snap, step_name),
                             before |-> CounterNext(store, step_name),
                             after |-> CounterNext(store', step_name),
                             value |-> r.value])
  /\ calls' = [calls EXCEPT ![p] = [pc |-> "idle"]]
  /\ UNCHANGED <<pending, chain>>

NextGenRace ==
  \/ \E p \in Callers, step_name \in StepNames : GenRead(p, step_name)
  \/ \E p \in Callers, ok \in BOOLEAN : GenWrite(p, ok)

SpecGenRace == Init /\ [][NextGenRace]_vars

----------------------------------------------------------------------------
(* Two _update_dynamic_output calls with different candidates on the same  *)
(* outer-most step: the read of its output metadata and the put that may   *)
(* follow are separate backend calls.                                      *)

RaceOuter == "A"
\* the steps that complete below it, whose ids are the candidates
RaceCandidates == NestedSteps \cup {"D"}

\* the output metadata the outer-most step may hold when the calls start: a
\* direct target, with or without a shortcut to another step
RaceDocs ==
  {[output_step_id |-> t] : t \in NestedSteps \ {RaceOuter}}
    \cup {[output_step_id |-> x[1], dynamic_output_step_id |-> x[2]] :
            x \in {y \in (NestedSteps \ {RaceOuter}) \X NestedSteps : y[1] # y[2]}}

InitUpdateRace ==
  /\ store \in {key_step_output_metadata(StepWorkflow, RaceOuter) :> Json(d) :
                  d \in RaceDocs}
  /\ result = NoResult
  /\ pending = NoWrites
  /\ genLog = NoLog
  /\ chain = NoChain
  /\ calls = NoCalls
  /\ writes = <<>>

\* the caller starts _update_dynamic_output(RaceOuter, c): its _get
UpdateRead(p, c) ==
  /\ calls[p].pc = "idle"
  /\ \A q \in Callers \ {p} : calls[q].pc # "idle" => calls[q].cand # c
  /\ calls' = [calls EXCEPT ![p] = [pc |-> "read", cand |-> c, snap |-> store,
                                    status |-> "none"]]
  /\ UNCHANGED <<store, result, pending, genLog, chain, writes>>

\* the caller decides on what it read, puts the document if it decided to,
\* and returns
UpdateWrite(p, ok) ==
  /\ calls[p].pc = "read"
  /\ LET key == key_step_output_metadata(StepWorkflow, RaceOuter)
         r == update_dynamic_output(calls[p].snap, StepWorkflow, RaceOuter,
                                    calls[p].cand, ok)
         landed == r.writes = 1 /\ r.status = "ok"
     IN /\ store' = IF landed THEN (key :> r.store[key]) @@ store ELSE store
        /\ result' = [op |-> "update_dynamic_output", status |-> r.status]
        /\ writes' = IF landed
                       THEN Append(writes, [caller |-> p, value |-> calls[p].cand])
                       ELSE writes
        /\ calls' = [calls EXCEPT ![p].pc = "done", ![p].status = r.status]
  /\ UNCHANGED <<pending, genLog, chain>>

NextUpdateRace ==
  \/ \E p \in Callers, c \in RaceCandidates : UpdateRead(p, c)
  \/ \E p \in Callers, ok \in BOOLEAN : UpdateWrite(p, ok)

SpecUpdateRace == InitUpdateRace /\ [][NextUpdateRace]_vars

----------------------------------------------------------------------------
(* Inspection of an arbitrary stored step.                                 *)

\* zero or one of the members of S
Options(S) == {{}} \cup {{v} : v \in S}
\* the store holding the payload of opt, if any, under key
Entry(key, opt) == [k \in {key : v \in opt} |-> CHOOSE v \in opt : TRUE]

\* output metadata documents: the direct target, with or without a shortcut
OutputMetadataDocs ==
  {[output_step_id |-> t] : t \in NestedSteps}
    \cup {[output_step_id |-> t, dynamic_output_step_id |-> d] :
            t \in NestedSteps, d \in NestedSteps}

\* input metadata documents: complete ones, one without its policy fields, one
\* that lacks a dependency list, one of a step type StepType does not have
\* and one with no step type
InputMetadataDocs ==
  {[object_refs |-> "[]", workflows |-> w, workflow_refs |-> "[]",
    step_type |-> t, max_retries |-> "3", catch_exceptions |-> "True",
    ray_options |-> "{}"] : w \in {"[B]"}, t \in StepType}
    \cup {[object_refs |-> "[]", workflows |-> "[]", workflow_refs |-> "[]",
           step_type |-> "FUNCTION"],
          [object_refs |-> "[]", workflow_refs |-> "[]",
           step_type |-> "FUNCTION"],
          [object_refs |-> "[]", workflows |-> "[]", workflow_refs |-> "[]",
           step_type |-> "BOGUS"],
          [object_refs |-> "[]", workflows |-> "[]", workflow_refs |-> "[]"]}

StepStores(wf, s) ==
  { Entry(key_step_output(wf, s), o)
      @@ Entry(key_step_output_metadata(wf, s), om)
      @@ Entry(key_step_input_metadata(wf, s), im)
      @@ Entry(key_step_args(wf, s), a)
      @@ Entry(key_step_function_body(wf, s), f) :
      o \in Options({Pickle("value")}),
      om \in Options({Json(d) : d \in OutputMetadataDocs} \cup {Corrupt}),
      im \in Options({Json(d) : d \in InputMetadataDocs} \cup {Corrupt}),
      a \in Options({Pickle("args")}),
      f \in Options({Pickle("func_body")}) }

InitInspect ==
  /\ \E wf \in Workflows, s \in StepIDs : store \in StepStores(wf, s)
  /\ result = NoResult
  /\ pending = NoWrites
  /\ genLog = NoLog
  /\ chain = NoChain
  /\ calls = NoCalls
  /\ writes = <<>>

NextInspect == \E wf \in Workflows, s \in StepIDs : InspectStep(wf, s)

SpecInspect == InitInspect /\ [][NextInspect]_vars

\* get_entrypoint_step_id on the same stores: the artifacts stored are those
\* of the root driver step or of another step
NextEntry == \E wf \in Workflows : GetEntrypointStepId(wf)

SpecEntry == InitInspect /\ [][NextEntry]_vars

----------------------------------------------------------------------------
(* Workflow metadata and the listing of workflows.                         *)

\* the enumerated workflow statuses
WorkflowStatus == {"RUNNING", "FINISHED"}

\* save_workflow_meta: one document holding the status
save_workflow_meta(st, wf, status, ok) ==
  Put(st, key_workflow_metadata(wf), Json([status |-> status]), ok)

\* WorkflowStatus(meta["status"]): a document without the field or with a
\* value that is no status raises
StatusOf(meta) ==
  IF "status" \notin DOMAIN meta THEN [status |-> "KeyError"]
  ELSE IF meta["status"] \notin WorkflowStatus THEN [status |-> "ValueError"]
  ELSE [status |-> "ok", value |-> meta["status"]]

\* load_workflow_meta: None when the key is absent
load_workflow_meta(st, wf) ==
  LET g == Get(st, key_workflow_metadata(wf)) IN
  IF g.status = "KeyNotFoundError" THEN [status |-> "ok", value |-> None]
  ELSE IF g.status # "ok" THEN [status |-> g.status, value |-> None]
  ELSE IF StatusOf(g.value).status # "ok"
    THEN [status |-> StatusOf(g.value).status, value |-> None]
  ELSE [status |-> "ok", value |-> StatusOf(g.value).value]

\* the prefix of all workflows
TopPrefix == <<"">>
NoEntries == [w \in {} |-> None]

\* the entry of a workflow whose metadata was loaded: its status, or None for
\* an empty document
ListEntry(meta) ==
  IF DOMAIN meta = {} THEN [status |-> "ok", value |-> None] ELSE StatusOf(meta)

\* _list_workflow: the backend's scan of the top level, called directly, then
\* the gathered loads of the metadata of every workflow found.  scan_ok says
\* whether the backend's scan succeeds; first is the workflow whose load or
\* entry is the first to raise, when some do.
list_workflow(st, scan_ok, first) ==
  LET workflow_ids == StorageScanPrefix(st, TopPrefix)
      metadata == [w \in workflow_ids |-> Get(st, key_workflow_metadata(w))]
      failed == {w \in workflow_ids : metadata[w].status # "ok"}
      bad == {w \in workflow_ids \ failed :
                ListEntry(metadata[w].value).status # "ok"}
  IN
  IF ~scan_ok THEN [status |-> "Exception", value |-> NoEntries]
  ELSE IF failed # {}
    THEN [status |-> metadata[IF first \in failed THEN first
                              ELSE CHOOSE w \in failed : TRUE].status,
          value |-> NoEntries]
  ELSE IF bad # {}
    THEN [status |-> ListEntry(metadata[IF first \in bad THEN first
                                         ELSE CHOOSE w \in bad : TRUE].value).status,
          value |-> NoEntries]
  ELSE [status |-> "ok",
        value |-> [w \in workflow_ids |-> ListEntry(metadata[w].value).value]]

SaveWorkflowMeta(wf, status, ok) ==
  /\ LET p == save_workflow_meta(store, wf, status, ok) IN
       /\ store' = p.store
       /\ result' = [op |-> "save_workflow_meta", status |-> p.status]
  /\ UNCHANGED <<pending, genLog, chain, calls, writes>>

LoadWorkflowMeta(wf) ==
  /\ LET l == load_workflow_meta(store, wf) IN
       result' = [op |-> "load_workflow_meta", status |-> l.status,
                  value |-> l.value]
  /\ UNCHANGED <<store, pending, genLog, chain, calls, writes>>

\* list_workflow(); ids keeps what the scan found and scanned whether it ran
ListWorkflow(scan_ok, first) ==
  /\ LET l == list_workflow(store, scan_ok, first) IN
       result' = [op |-> "list_workflow", status |-> l.status,
                  value |-> l.value, scanned |-> scan_ok,
                  ids |-> StorageScanPrefix(store, TopPrefix)]
  /\ UNCHANGED <<store, pending, genLog, chain, calls, writes>>

\* the metadata documents found stored: a status, another value, no field,
\* an empty document
WorkflowMetaDocs ==
  {[status |-> v] : v \in WorkflowStatus \cup {"BOGUS"}}
    \cup {[other |-> "x"], NoEntries}

\* the stores of a workflow: its metadata, if any, beside a name counter
WorkflowStores(wf) ==
  { Entry(key_workflow_metadata(wf), m)
      @@ Entry(key_num_steps_with_name(wf, "f"), c) :
      m \in Options({Json(d) : d \in WorkflowMetaDocs} \cup {Corrupt}),
      c \in Options({Json(0)}) }

InitList ==
  /\ store \in {a @@ b : a \in WorkflowStores("w1"), b \in WorkflowStores("w2")}
  /\ result = NoResult
  /\ pending = NoWrites
  /\ genLog = NoLog
  /\ chain = NoChain
  /\ calls = NoCalls
  /\ writes = <<>>

NextList ==
  \/ \E scan_ok \in BOOLEAN, first \in Workflows : ListWorkflow(scan_ok, first)
  \/ \E wf \in Workflows, status \in WorkflowStatus, ok \in BOOLEAN :
       SaveWorkflowMeta(wf, status, ok)
  \/ \E wf \in Workflows : LoadWorkflowMeta(wf)

SpecList == InitList /\ [][NextList]_vars

----------------------------------------------------------------------------
(* Claims about inspect_step, checked under SpecInspect.                   *)

Inspected == result.op = "inspect_step"
InspectedHas(name) ==
  <<result.wf, STEPS_DIR, result.step_id, name>> \in DOMAIN store

\* C1: whenever the output checkpoint of the inspected step is stored,
\* inspect_step returns the directly-satisfied verdict (output_object_valid, no
\* forwarding pointer, no dependency information), whatever else is stored.
C1_OutputTakesPrecedence ==
  (Inspected /\ InspectedHas(STEP_OUTPUT)) =>
    /\ result.status = "ok"
    /\ result.value.output_object_valid
    /\ result.value.output_step_id = None
    /\ result.value.object_refs = None
    /\ result.value.workflows = None
    /\ result.value.workflow_refs = None
    /\ result.value = [StepInspectResult EXCEPT !.output_object_valid = TRUE]

\* the output checkpoint is stored along with all four other artifacts
C1_Witness ==
  /\ Inspected /\ result.status = "ok" /\ result.value.output_object_valid
  /\ InspectedHas(STEP_OUTPUT) /\ InspectedHas(STEP_OUTPUTS_METADATA)
  /\ InspectedHas(STEP_INPUTS_METADATA) /\ InspectedHas(STEP_ARGS)
  /\ InspectedHas(STEP_FUNC_BODY)

\* the pointer of a stored output metadata document, read off the document
PointerOf(doc) ==
  IF "dynamic_output_step_id" \in DOMAIN doc
    THEN doc["dynamic_output_step_id"] ELSE doc["output_step_id"]

\* C2: for a step with output metadata and no output checkpoint, inspect_step
\* returns the forwarded verdict whose pointer is the document's
\* dynamic_output_step_id if it has one and its output_step_id otherwise, which
\* is what locate_output_step_id returns; when the document cannot be read both
\* fail alike.
C2_ForwardedPointer ==
  (Inspected /\ InspectedHas(STEP_OUTPUTS_METADATA) /\ ~InspectedHas(STEP_OUTPUT)) =>
    LET payload == store[key_step_output_metadata(result.wf, result.step_id)]
        l == locate_output_step_id(store, result.wf, result.step_id)
    IN
    IF "corrupt" \in DOMAIN payload
      THEN result.status = "DataLoadError" /\ l.status = "DataLoadError"
    ELSE /\ result.status = "ok" /\ l.status = "ok"
         /\ result.value.output_step_id = PointerOf(payload.data)
         /\ result.value.output_step_id = l.value
         /\ result.value =
              [StepInspectResult EXCEPT !.output_step_id = PointerOf(payload.data)]

\* a forwarded verdict that follows the shortcut, not the direct target
C2_Witness ==
  /\ Inspected /\ result.status = "ok"
  /\ InspectedHas(STEP_OUTPUTS_METADATA) /\ ~InspectedHas(STEP_OUTPUT)
  /\ LET doc == store[key_step_output_metadata(result.wf, result.step_id)].data IN
       /\ "dynamic_output_step_id" \in DOMAIN doc
       /\ doc["dynamic_output_step_id"] # doc["output_step_id"]
       /\ result.value.output_step_id = doc["dynamic_output_step_id"]

\* the input metadata of the inspected step was loaded
InspectedInputMetadataLoaded ==
  Get(store, key_step_input_metadata(result.wf, result.step_id)).status = "ok"

\* C3: the verdict inspect_step returns is recoverable iff it is
\* directly-satisfied, or forwarded, or the input metadata was loaded, the
\* arguments and the function body are stored and the verdict carries the
\* dependency lists.
C3_RecoverableIff ==
  (Inspected /\ result.status = "ok") =>
    (is_recoverable(result.value) <=>
       \/ result.value.output_object_valid
       \/ result.value.output_step_id # None
       \/ (/\ InspectedInputMetadataLoaded
           /\ InspectedHas(STEP_ARGS)
           /\ InspectedHas(STEP_FUNC_BODY)
           /\ result.value.object_refs # None
           /\ result.value.workflows # None
           /\ result.value.workflow_refs # None))

\* a verdict that is recoverable from the inputs alone
C3_Witness ==
  /\ Inspected /\ result.status = "ok"
  /\ ~result.value.output_object_valid /\ result.value.output_step_id = None
  /\ is_recoverable(result.value)

\* the inspected step has neither an output checkpoint nor output metadata
InspectedFromInputs ==
  /\ Inspected
  /\ ~InspectedHas(STEP_OUTPUT)
  /\ ~InspectedHas(STEP_OUTPUTS_METADATA)

\* the input metadata of the inspected step loads, has its dependency lists
\* and names a step type that StepType does not have
InspectedUnknownStepType ==
  /\ InspectedInputMetadataLoaded
  /\ LET metadata == Get(store, key_step_input_metadata(result.wf,
                                                        result.step_id)).value
     IN /\ {"object_refs", "workflows", "workflow_refs", "step_type"}
             \subseteq DOMAIN metadata
        /\ metadata["step_type"] \notin StepType

\* the verdict that carries only the existence flags of the inspected step's
\* arguments and function body
ReducedVerdict ==
  [StepInspectResult EXCEPT !.args_valid = InspectedHas(STEP_ARGS),
                            !.func_body_valid = InspectedHas(STEP_FUNC_BODY)]

\* C13 as stated: inspecting a step with no output checkpoint and no output
\* metadata whose input metadata names an unknown step type ends in a load
\* failure, not in a verdict.
C13_UnknownStepTypeFails ==
  (InspectedFromInputs /\ InspectedUnknownStepType) =>
    result.status = "DataLoadError"

\* C13 as amended: inspecting such a step does not fail; the failed lookup of
\* the step type is caught like any other exception and inspect_step returns
\* the reduced verdict (existence flags only, no dependency lists, no step
\* type), which is not recoverable.
C13_UnknownStepTypeReduced ==
  (InspectedFromInputs /\ InspectedUnknownStepType) =>
    /\ result.status = "ok"
    /\ result.value = ReducedVerdict
    /\ result.value.step_type = None
    /\ ~is_recoverable(result.value)

\* a step of unknown type whose arguments and function body are stored
C13_Witness ==
  /\ InspectedFromInputs /\ InspectedUnknownStepType
  /\ result.status = "ok"
  /\ result.value.args_valid /\ result.value.func_body_valid
  /\ ~is_recoverable(result.value)

\* C14: inspecting a step with no output checkpoint and no output metadata
\* whose input metadata is absent or cannot be parsed returns the reduced
\* verdict: the existence flags of the arguments and of the function body, no
\* dependency lists, not recoverable; with no artifact at all both flags are
\* false.
C14_ReducedVerdict ==
  (InspectedFromInputs /\ ~InspectedInputMetadataLoaded) =>
    /\ result.status = "ok"
    /\ result.value = ReducedVerdict
    /\ result.value.object_refs = None
    /\ result.value.workflows = None
    /\ result.value.workflow_refs = None
    /\ ~is_recoverable(result.value)
    /\ StorageScanPrefix(store, key_step_prefix(result.wf, result.step_id)) = {}
         => (~result.value.args_valid /\ ~result.value.func_body_valid)

\* input metadata that cannot be parsed beside stored arguments and a stored
\* function body
C14_Witness ==
  /\ InspectedFromInputs
  /\ InspectedHas(STEP_INPUTS_METADATA) /\ ~InspectedInputMetadataLoaded
  /\ result.status = "ok"
  /\ result.value.args_valid /\ result.value.func_body_valid
  /\ ~is_recoverable(result.value)

----------------------------------------------------------------------------
(* Claims about the outputs and the shortcut, checked under Spec.          *)

HasOutput(st, s) == key_step_output(StepWorkflow, s) \in DOMAIN st
HasOutputMetadata(st, s) == key_step_output_metadata(StepWorkflow, s) \in DOMAIN st
OutputMetadata(st, s) == st[key_step_output_metadata(StepWorkflow, s)].data
HasDynamic(st, s) ==
  /\ HasOutputMetadata(st, s)
  /\ "dynamic_output_step_id" \in DOMAIN OutputMetadata(st, s)
Dynamic(st, s) == OutputMetadata(st, s)["dynamic_output_step_id"]
Direct(st, s) == OutputMetadata(st, s)["output_step_id"]

\* b is nested below a: a chain of direct targets leads from a to b
RECURSIVE NestedWithin(_, _, _, _)
NestedWithin(st, a, b, n) ==
  /\ n > 0
  /\ HasOutputMetadata(st, a)
  /\ \/ Direct(st, a) = b
     \/ NestedWithin(st, Direct(st, a), b, n - 1)
Deeper(st, a, b) == NestedWithin(st, a, b, Cardinality(StepIDs))

UpdateOnce(o, c) == update_dynamic_output(store, StepWorkflow, o, c, TRUE)
UpdateTwice(o, c) ==
  update_dynamic_output(UpdateOnce(o, c).store, StepWorkflow, o, c, TRUE)

\* C6: for every outer-most step with output metadata and every candidate,
\* applying the candidate twice leaves the store of applying it once and issues
\* at most one put; a candidate equal to the dynamic_output_step_id or to the
\* output_step_id issues no put and leaves the store as it is.
C6_UpdateIdempotent ==
  \A o \in StepIDs, c \in NestedSteps :
    HasOutputMetadata(store, o) =>
      /\ UpdateOnce(o, c).status = "ok" /\ UpdateTwice(o, c).status = "ok"
      /\ UpdateTwice(o, c).store = UpdateOnce(o, c).store
      /\ UpdateOnce(o, c).writes + UpdateTwice(o, c).writes <= 1
      /\ (c = Direct(store, o)
            \/ c = DictGet(OutputMetadata(store, o), "dynamic_output_step_id")) =>
           /\ UpdateOnce(o, c).writes = 0
           /\ UpdateOnce(o, c).store = store

\* a shortcut is stored, and some other candidate would still move it
C6_Witness ==
  \E o \in StepIDs, c \in NestedSteps :
    /\ HasDynamic(store, o)
    /\ UpdateOnce(o, Dynamic(store, o)).writes = 0
    /\ UpdateOnce(o, c).writes = 1
    /\ UpdateOnce(o, c).store # store

\* the identifier a completion forwards to the outer-most step
Forwarded(step_id, ret) == IF ret.is_workflow THEN ret.step_id ELSE step_id

\* C8 as stated: when save_step_output returns, called with a non-empty
\* outer-most step, locate_output_step_id of that step returns the forwarded
\* identifier: the nested workflow's step id, or step_id for an object.
C8_PointerAdvanced ==
  [][\A step_id \in NestedSteps, ret \in Returns, outer \in NestedSteps :
       (/\ SaveStepOutput(StepWorkflow, step_id, ret, outer, "none")
        /\ result'.status = "ok") =>
         /\ locate_output_step_id(store', StepWorkflow, outer).status = "ok"
         /\ locate_output_step_id(store', StepWorkflow, outer).value =
              Forwarded(step_id, ret)]_vars

\* the forwarded identifier is the direct target of the outer-most step, which
\* already has another shortcut
ShortcutStands(st, outer, forwarded) ==
  /\ forwarded = Direct(st, outer)
  /\ HasDynamic(st, outer)
  /\ Dynamic(st, outer) # forwarded

\* C8 as amended: when save_step_output returns, called with a non-empty
\* outer-most step, locate_output_step_id of that step returns the forwarded
\* identifier, except when the forwarded identifier is the outer-most step's
\* output_step_id and a different dynamic_output_step_id is already stored:
\* then the document is left as it is and the stored shortcut is returned.
C8_PointerAdvancedUnlessDirect ==
  [][\A step_id \in NestedSteps, ret \in Returns, outer \in NestedSteps :
       (/\ SaveStepOutput(StepWorkflow, step_id, ret, outer, "none")
        /\ result'.status = "ok") =>
         /\ locate_output_step_id(store', StepWorkflow, outer).status = "ok"
         /\ locate_output_step_id(store', StepWorkflow, outer).value =
              (IF ShortcutStands(store, outer, Forwarded(step_id, ret))
                 THEN Dynamic(store, outer) ELSE Forwarded(step_id, ret))
         /\ ShortcutStands(store, outer, Forwarded(step_id, ret)) =>
              OutputMetadata(store', outer) = OutputMetadata(store, outer)]_vars

\* an object was written for a step, and the shortcut of another step now
\* resolves to it
C8_Witness ==
  /\ result.op = "save_step_output" /\ result.status = "ok"
  /\ \E outer \in NestedSteps :
       /\ HasDynamic(store, outer)
       /\ HasOutput(store, Dynamic(store, outer))
       /\ locate_output_step_id(store, StepWorkflow, outer).value
            = Dynamic(store, outer)

\* C9 as stated: no step has both its output checkpoint and its output
\* metadata stored.
C9_AtMostOneOutputArtifact ==
  \A s \in StepIDs : ~(HasOutput(store, s) /\ HasOutputMetadata(store, s))

\* C9 as amended: no call removes an output checkpoint or an output metadata
\* document; a checkpoint appears only by a save_step_output of that step with
\* an object, a document only by one with a nested workflow, and a call adds
\* one of the two only.  So a step has both exactly when it was saved with
\* both kinds of return.
C9_OneArtifactPerSave ==
  [][\A s \in StepIDs :
       /\ HasOutput(store, s) => HasOutput(store', s)
       /\ HasOutputMetadata(store, s) => HasOutputMetadata(store', s)
       /\ (~HasOutput(store, s) /\ HasOutput(store', s)) =>
            /\ HasOutputMetadata(store', s) = HasOutputMetadata(store, s)
            /\ \E outer \in OuterMostStepIDs :
                 SaveStepOutput(StepWorkflow, s, Object, outer, result'.fault)
       /\ (~HasOutputMetadata(store, s) /\ HasOutputMetadata(store', s)) =>
            /\ HasOutput(store', s) = HasOutput(store, s)
            /\ \E ret \in Returns, outer \in OuterMostStepIDs :
                 /\ ret.is_workflow
                 /\ SaveStepOutput(StepWorkflow, s, ret, outer, result'.fault)]_vars

\* a step saved with a nested workflow and with an object holds both
C9_Witness ==
  \E s \in StepIDs : HasOutput(store, s) /\ HasOutputMetadata(store, s)

----------------------------------------------------------------------------
(* Claims about a chain of nested workflows, checked under SpecChain.      *)

EntrypointReturned ==
  result.op = "get_entrypoint_step_id" /\ Len(chain.steps) >= 2

\* C5 as stated: after the N completions of a chain, each returning the next
\* nested workflow, get_entrypoint_step_id returns the Nth, deepest step.
C5_EntrypointIsDeepest ==
  EntrypointReturned =>
    /\ result.status = "ok"
    /\ result.value = Last(chain.steps)

\* C5 as amended: get_entrypoint_step_id returns the root's output_step_id, the
\* first step of the chain, whatever N is, because the shortcut update skips
\* the root; the shortcut to the deepest step is kept by that first step: when
\* the latest completion below it was saved with it as outer_most_step_id, its
\* locate_output_step_id returns the Nth step.
C5_EntrypointIsFirst ==
  EntrypointReturned =>
    /\ result.status = "ok"
    /\ result.value = chain.steps[2]
    /\ (Len(chain.steps) >= 3 /\ chain.outer = chain.steps[2]) =>
         /\ locate_output_step_id(store, StepWorkflow, chain.steps[2]).status = "ok"
         /\ locate_output_step_id(store, StepWorkflow, chain.steps[2]).value
              = Last(chain.steps)

\* three completions, and the entry point is still the first step
C5_Witness ==
  /\ EntrypointReturned /\ result.status = "ok"
  /\ Len(chain.steps) = 4
  /\ chain.outer = chain.steps[2]
  /\ result.value = chain.steps[2]
  /\ result.value # Last(chain.steps)
  /\ locate_output_step_id(store, StepWorkflow, chain.steps[2]).value
       = Last(chain.steps)

\* the stores differ at most at key
SameExcept(st1, st2, key) ==
  /\ DOMAIN st2 \ {key} = DOMAIN st1 \ {key}
  /\ \A k \in DOMAIN st1 \ {key} : st2[k] = st1[k]

\* the key save_step_output writes for the step itself
OwnKey(step_id, ret) ==
  IF ret.is_workflow THEN key_step_output_metadata(StepWorkflow, step_id)
  ELSE key_step_output(StepWorkflow, step_id)

\* the store without the output metadata of any step but step_id
WithoutOtherMetadata(st, step_id) ==
  [k \in {x \in DOMAIN st :
            x[4] = STEP_OUTPUTS_METADATA => x[3] = step_id} |-> st[k]]

RootMetadataKey == key_step_output_metadata(StepWorkflow, RootStep)

\* C15: a completion saved with no outer-most step, or with the root
\* sentinel as outer-most step, succeeds and changes the store at the step's
\* own key only; it would do the same with no other output metadata stored,
\* so it reads none; and no completion of a step other than the root changes
\* the root's output metadata.
C15_NoShortcutUpdate ==
  [][/\ \A outer \in {None, RootStep} :
          /\ \A t \in NestedSteps :
               (chain.steps # <<>> /\ ChainReturnsWorkflow(StepWorkflow, t, outer)) =>
                 /\ result'.status = "ok"
                 /\ SameExcept(store, store', OwnKey(Last(chain.steps), Workflow(t)))
                 /\ LET bare == WithoutOtherMetadata(store, Last(chain.steps))
                        r == save_step_output(bare, StepWorkflow, Last(chain.steps),
                                              Workflow(t), outer, TRUE, TRUE)
                    IN r.status = "ok"
                         /\ SameExcept(bare, r.store,
                                       OwnKey(Last(chain.steps), Workflow(t)))
          /\ ChainReturnsObject(StepWorkflow, outer) =>
               /\ result'.status = "ok"
               /\ SameExcept(store, store', OwnKey(Last(chain.steps), Object))
               /\ LET bare == WithoutOtherMetadata(store, Last(chain.steps))
                      r == save_step_output(bare, StepWorkflow, Last(chain.steps),
                                            Object, outer, TRUE, TRUE)
                  IN r.status = "ok"
                       /\ SameExcept(bare, r.store, OwnKey(Last(chain.steps), Object))
     /\ chain.steps # <<>> =>
          /\ RootMetadataKey \in DOMAIN store'
          /\ store'[RootMetadataKey] = store[RootMetadataKey]]_vars

\* two steps below the root completed with the root sentinel as outer-most
\* step, and the root's output metadata is still the document the driver wrote
C15_Witness ==
  /\ Len(chain.steps) >= 3
  /\ chain.outer = RootStep
  /\ result.op = "save_step_output" /\ result.status = "ok"
  /\ store[RootMetadataKey] = Json([output_step_id |-> chain.steps[2]])
  /\ ~HasDynamic(store, chain.steps[2])

----------------------------------------------------------------------------
(* Claims about gen_step_id, checked under SpecGen.                        *)

\* C7: for every workflow and step name, the calls of gen_step_id that return
\* do so with 0, 1, 2, ... in that order, whatever calls for other names and
\* other workflows come in between.
C7_SequentialNames ==
  \A k \in Workflows \X StepNames :
    \A i \in 1..Len(genLog[k]) : genLog[k][i] = i - 1

\* one name was generated three times while others were generated less often
C7_Witness ==
  /\ genLog[<<"w1", "f">>] = <<0, 1, 2>>
  /\ genLog[<<"w1", "g">>] = <<0>>
  /\ genLog[<<"w2", "f">>] = <<0, 1>>

----------------------------------------------------------------------------
(* Claims about the inputs of a step, checked under SpecInputs.            *)

InputsLanded(st, s) ==
  {name \in InputArtifacts : <<StepWorkflow, STEPS_DIR, s, name>> \in DOMAIN st}

\* C10: for a step with neither an output checkpoint nor output metadata,
\* inspect_step returns a verdict that is recoverable exactly when all three
\* input artifacts are stored: while puts of _write_step_inputs are pending,
\* and after some were refused, the step is not recoverable.
C10_PartialInputsNotRecoverable ==
  \A s \in StepIDs :
    (~HasOutput(store, s) /\ ~HasOutputMetadata(store, s)) =>
      /\ inspect_step(store, StepWorkflow, s).status = "ok"
      /\ is_recoverable(inspect_step(store, StepWorkflow, s).value)
           <=> InputsLanded(store, s) = InputArtifacts

\* the put of the arguments was refused, the other two landed, and the step
\* was inspected
C10_Witness ==
  /\ Inspected /\ result.step_id = InputStep
  /\ pending[InputStep].todo = {}
  /\ pending[InputStep].exc = "DataSaveError"
  /\ InputsLanded(store, InputStep) = {STEP_INPUTS_METADATA, STEP_FUNC_BODY}
  /\ ~HasOutput(store, InputStep) /\ ~HasOutputMetadata(store, InputStep)
  /\ ~is_recoverable(result.value)

----------------------------------------------------------------------------
(* Claims about the classification of failures and the listing of          *)
(* workflows, checked under SpecList.                                      *)

ListKeys == {key_workflow_metadata(w) : w \in Workflows}
             \cup {key_num_steps_with_name(w, "f") : w \in Workflows}

\* C11 as stated: a write the backend refuses surfaces as a save failure, a
\* read the backend fails surfaces as a load failure, and a read of an absent
\* key surfaces as key-not-found; this for the wrapped puts and gets and for
\* the operations that read and write: a listing whose scan the backend fails
\* ends in a load failure.
C11_FailuresClassified ==
  /\ \A key \in ListKeys :
       /\ Put(store, key, Json(0), FALSE).status = "DataSaveError"
       /\ key \notin DOMAIN store => Get(store, key).status = "KeyNotFoundError"
       /\ (key \in DOMAIN store /\ store[key] = Corrupt) =>
            Get(store, key).status = "DataLoadError"
  /\ (result.op = "list_workflow" /\ ~result.scanned) =>
       result.status = "DataLoadError"

\* C12 as stated: a listing whose scan ran returns one entry for every
\* workflow the scan found; a workflow whose metadata is missing or fails to
\* load has the placeholder None as its entry (the metadata that is stored and
\* loads holds a status).
C12_ListingBestEffort ==
  [][\A scan_ok \in BOOLEAN, first \in Workflows :
       (/\ ListWorkflow(scan_ok, first)
        /\ scan_ok
        /\ \A w \in StorageScanPrefix(store, TopPrefix) :
             \/ Get(store, key_workflow_metadata(w)).status # "ok"
             \/ ListEntry(Get(store, key_workflow_metadata(w)).value).status = "ok") =>
         /\ result'.status = "ok"
         /\ DOMAIN result'.value = StorageScanPrefix(store, TopPrefix)
         /\ \A w \in StorageScanPrefix(store, TopPrefix) :
              Get(store, key_workflow_metadata(w)).status # "ok" =>
                result'.value[w] = None]_vars

----------------------------------------------------------------------------
(* Claims about concurrent calls of gen_step_id, checked under SpecGenRace. *)

\* no put of another caller landed between the read and the put of any call
NoOverlap == \A i \in 1..Len(writes) : writes[i].read = writes[i].before

NoDuplicates(seq) ==
  \A i \in 1..Len(seq), j \in 1..Len(seq) : seq[i] = seq[j] => i = j

\* C16 as stated: in any interleaving of the reads and writes of the calls, no
\* two calls of gen_step_id for a step name return the same value.
C16_CollisionFree ==
  \A step_name \in StepNames : NoDuplicates(genLog[<<StepWorkflow, step_name>>])

\* C16 as amended: a call returns the successor of the counter value it read,
\* 0 when it read none; the values returned for a name are distinct as long as
\* no put to the counter landed between the read and the put of a call.  Calls
\* that read the same counter content return the same value.
C16_CollisionFreeUnlessOverlap ==
  /\ \A i \in 1..Len(writes) : writes[i].value = writes[i].read
  /\ NoOverlap =>
       \A step_name \in StepNames :
         NoDuplicates(genLog[<<StepWorkflow, step_name>>])

\* two first calls both found the counter absent and both returned 0
C16_Witness ==
  /\ genLog[<<StepWorkflow, "f">>] = <<0, 0>>
  /\ Len(writes) = 2
  /\ writes[1].caller # writes[2].caller
  /\ writes[2].read = 0 /\ writes[2].before = 1

\* C19 as stated: no put to a counter record replaces its value with a
\* smaller or equal one.
C19_CounterMonotonic ==
  \A i \in 1..Len(writes) :
    writes[i].ok => writes[i].after > writes[i].before

\* C19 as amended: a put stores the successor of the value its call read, so
\* it raises the counter above what the call read; it raises the counter
\* above what it replaces when no other put landed in between, and can store
\* an equal or a smaller value otherwise.
C19_CounterAboveRead ==
  \A i \in 1..Len(writes) :
    /\ writes[i].ok => writes[i].after = writes[i].read + 1
    /\ ~writes[i].ok => writes[i].after = writes[i].before
    /\ (writes[i].ok /\ writes[i].read = writes[i].before) =>
         writes[i].after > writes[i].before

\* a put that landed late replaced the counter with a smaller value
C19_Witness ==
  \E i \in 1..Len(writes) :
    /\ writes[i].ok
    /\ writes[i].after < writes[i].before
    /\ writes[i].after = writes[i].read + 1

----------------------------------------------------------------------------
(* Claims about racing shortcut updates, checked under SpecUpdateRace.     *)

BothUpdated == \A p \in Callers : calls[p].pc = "done" /\ calls[p].status = "ok"

\* C17: when two _update_dynamic_output calls with different candidates on
\* the same outer-most step have both returned, however their reads and puts
\* interleaved, the stored dynamic_output_step_id is the candidate of one of
\* them: of the call whose put landed last when any put landed, and the
\* document is otherwise the one both calls read, with its output_step_id
\* and no other field.
C17_LastAdvanceWins ==
  BothUpdated =>
    /\ HasDynamic(store, RaceOuter)
    /\ Dynamic(store, RaceOuter) \in {calls[p].cand : p \in Callers}
    /\ writes # <<>> => Dynamic(store, RaceOuter) = writes[Len(writes)].value
    /\ writes = <<>> => \A p \in Callers : store = calls[p].snap
    /\ \A p \in Callers : Direct(store, RaceOuter) = Direct(calls[p].snap, RaceOuter)
    /\ DOMAIN OutputMetadata(store, RaceOuter)
         = {"output_step_id", "dynamic_output_step_id"}

\* both calls read the same document, both put, and the first put is lost
C17_Witness ==
  /\ BothUpdated
  /\ calls["p1"].snap = calls["p2"].snap
  /\ HasDynamic(calls["p1"].snap, RaceOuter)
  /\ Len(writes) = 2
  /\ Dynamic(store, RaceOuter) = writes[2].value
  /\ Dynamic(store, RaceOuter) # writes[1].value

----------------------------------------------------------------------------
(* Claims about what _update_dynamic_output leaves alone, checked under    *)
(* Spec, and about get_entrypoint_step_id, checked under SpecEntry.        *)

UpdateOf(o, c, ok) == update_dynamic_output(store, StepWorkflow, o, c, ok)

\* C20: for every outer-most step, candidate and backend answer,
\* _update_dynamic_output changes no key but the outer-most step's output
\* metadata, keeps its output_step_id and every field but
\* dynamic_output_step_id, and adds no other field; when the outer-most step
\* has no output metadata it raises KeyNotFoundError and stores nothing.
C20_UpdateFrame ==
  \A o \in StepIDs, c \in NestedSteps, ok \in BOOLEAN :
    LET key == key_step_output_metadata(StepWorkflow, o)
        r == UpdateOf(o, c, ok)
    IN IF HasOutputMetadata(store, o)
         THEN /\ SameExcept(store, r.store, key)
              /\ key \in DOMAIN r.store
              /\ r.store[key].is_json
              /\ r.store[key].data["output_step_id"] = Direct(store, o)
              /\ DOMAIN r.store[key].data \subseteq
                   DOMAIN OutputMetadata(store, o) \cup {"dynamic_output_step_id"}
              /\ \A f \in DOMAIN OutputMetadata(store, o) \ {"dynamic_output_step_id"} :
                   r.store[key].data[f] = OutputMetadata(store, o)[f]
         ELSE /\ r.status = "KeyNotFoundError"
              /\ r.writes = 0
              /\ r.store = store

\* an update would move the shortcut of one step, and would fail on another
\* step that has no output metadata
C20_Witness ==
  /\ \E o \in StepIDs, c \in NestedSteps :
       /\ HasDynamic(store, o)
       /\ UpdateOf(o, c, TRUE).writes = 1
       /\ UpdateOf(o, c, TRUE).store # store
       /\ Dynamic(UpdateOf(o, c, TRUE).store, o) = c
  /\ \E o \in NestedSteps :
       ~HasOutputMetadata(store, o)
         /\ UpdateOf(o, "B", TRUE).status = "KeyNotFoundError"

RootMetadata(wf) == Get(store, key_step_output_metadata(wf, RootStep))

\* C18: get_entrypoint_step_id changes nothing in the storage; when the root
\* driver step has no output metadata it raises an error that names the
\* workflow and returns no step id; when the root's output metadata loads it
\* returns its dynamic_output_step_id if it has one and its output_step_id
\* otherwise.
C18_EntrypointOrError ==
  [][\A wf \in Workflows :
       GetEntrypointStepId(wf) =>
         /\ store' = store
         /\ RootMetadata(wf).status = "KeyNotFoundError" =>
              /\ result'.status = "ValueError"
              /\ result'.value = wf
         /\ RootMetadata(wf).status = "ok" =>
              /\ result'.status = "ok"
              /\ result'.value = PointerOf(RootMetadata(wf).value)]_vars

\* the entry point was read from a root that has a shortcut
C18_Witness ==
  /\ result.op = "get_entrypoint_step_id" /\ result.status = "ok"
  /\ RootMetadata(StepWorkflow).status = "ok"
  /\ "dynamic_output_step_id" \in DOMAIN RootMetadata(StepWorkflow).value
  /\ result.value = RootMetadata(StepWorkflow).value["dynamic_output_step_id"]
  /\ result.value # RootMetadata(StepWorkflow).value["output_step_id"]

----------------------------------------------------------------------------
(* Claims about inspect_step beside writers, checked under SpecInspectRace. *)

\* the artifacts in st that justify the verdict v of step s
Justified(st, s, v) ==
  IF v.output_object_valid THEN HasOutput(st, s)
  ELSE IF Truthy(v.output_step_id) THEN HasOutputMetadata(st, s)
  ELSE InputsLanded(st, s) = InputArtifacts

\* C21: whenever inspect_step returns a recoverable verdict, whatever puts of
\* save_subworkflow and save_step_output landed between its scan and its
\* read, the artifacts that justify the verdict are stored when it returns:
\* the output checkpoint, or the output metadata, or the input metadata, the
\* arguments and the function body.
C21_RecoverableIsJustified ==
  [][\A p \in Callers :
       (/\ InspectReturn(p, StepWorkflow, InputStep)
        /\ result'.status = "ok"
        /\ is_recoverable(result'.value)) =>
         Justified(store', InputStep, result'.value)]_vars

\* the scan listed the arguments and the function body but no input metadata,
\* the input metadata landed before the read, and the verdict is recoverable
C21_Witness ==
  /\ Inspected /\ result.status = "ok"
  /\ "field_list" \in DOMAIN result
  /\ ~result.field_list.input_metadata_exists
  /\ result.field_list.args_exists /\ result.field_list.func_body_exists
  /\ ~result.value.output_object_valid /\ result.value.output_step_id = None
  /\ is_recoverable(result.value)
  /\ InputsLanded(store, InputStep) = InputArtifacts

====
